---- MODULE Spec2Model ----
(***************************************************************************)
(* Model of plugins/addrelease/addrelease.py: the three context-menu       *)
(* actions registered at import time, their callback (check_object, the    *)
(* try/finally around set_form_values / generate_html_file /               *)
(* open_html_file) and AddClusterAsRelease.extract_discnumber.             *)
(*                                                                         *)
(* Text that the code inspects character by character (the discnumber and  *)
(* tracknumber tags) is a sequence of one-character strings; text that the *)
(* code only copies (titles, artists, form keys) is a TLA+ string.         *)
(***************************************************************************)
EXTENDS Integers, Sequences, FiniteSets, TLC

VARIABLES
    pc,                \* position of the running callback, "idle" between callbacks
    self,              \* the action instance whose callback is running
    objs,              \* the selection handed to callback(objs)
    objdata,           \* callback's local: the result of check_object
    form_values,       \* per action instance: self.form_values, an ordered dict
    discnumber_shift,  \* AddClusterAsRelease().discnumber_shift of the registered instance
    k,                 \* set_form_values: position of enumerate(cluster.files)
    html_file,         \* callback's local: the document written by generate_html_file
    exc,               \* an exception is propagating out of the try block
    calls,             \* trace of the extract_discnumber calls of the running callback
                       \* (of the instance, in the doctest)
    last_form          \* the action and the form_values rendered by the previous
                       \* callback, when it was on the selection that is still current

vars == <<pc, self, objs, objdata, form_values, discnumber_shift, k,
          html_file, exc, calls, last_form>>

-----------------------------------------------------------------------------
(* Bounds of the model *)

\* the largest number of files in a cluster
MaxFiles == 2

\* the largest number of direct extract_discnumber calls on one instance
MaxCalls == 4

-----------------------------------------------------------------------------
(* Python values *)

\* None and False: a value that may be missing is a sequence of at most one item
None == <<>>
False == <<>>
Some(v) == <<v>>

DigitChars == {"0", "1", "2", "3", "4", "5", "6", "7", "8", "9"}

DigitVal(c) ==
    CASE c = "0" -> 0 [] c = "1" -> 1 [] c = "2" -> 2 [] c = "3" -> 3
      [] c = "4" -> 4 [] c = "5" -> 5 [] c = "6" -> 6 [] c = "7" -> 7
      [] c = "8" -> 8 [] c = "9" -> 9

\* str.strip() for the whitespace of the model's alphabet
RECURSIVE LStrip(_)
LStrip(s) == IF s # <<>> /\ s[1] = " " THEN LStrip(Tail(s)) ELSE s

RECURSIVE RStrip(_)
RStrip(s) ==
    IF s # <<>> /\ s[Len(s)] = " " THEN RStrip(SubSeq(s, 1, Len(s) - 1)) ELSE s

Strip(s) == RStrip(LStrip(s))

\* the digits of a literal, after the optional sign
Unsigned(t) == IF t # <<>> /\ t[1] \in {"+", "-"} THEN Tail(t) ELSE t

\* int(s) does not raise ValueError: optional whitespace, optional sign, digits
IsInt(s) ==
    LET d == Unsigned(Strip(s))
    IN  d # <<>> /\ \A j \in 1..Len(d) : d[j] \in DigitChars

RECURSIVE Decimal(_)
Decimal(d) ==
    IF d = <<>> THEN 0
    ELSE 10 * Decimal(SubSeq(d, 1, Len(d) - 1)) + DigitVal(d[Len(d)])

\* int(s), for a string on which it does not raise
int(s) ==
    LET t == Strip(s)
    IN  IF t[1] = "-" THEN 0 - Decimal(Unsigned(t)) ELSE Decimal(Unsigned(t))

\* s.split(sep, 1)[0]: the part before the first separator
RECURSIVE SplitFirst(_, _)
SplitFirst(s, sep) ==
    IF s = <<>> \/ s[1] = sep THEN <<>>
    ELSE <<s[1]>> \o SplitFirst(Tail(s), sep)

Max(a, b) == IF a >= b THEN a ELSE b

\* picard Metadata: metadata.get(name, default)
MetadataGet(metadata, name, default) ==
    IF name \in DOMAIN metadata THEN metadata[name] ELSE default

-----------------------------------------------------------------------------
(* The module's constants and the three registered actions *)

Actions == {"AddClusterAsRelease", "AddFileAsRecording", "AddFileAsRelease"}

NAME(a) ==
    CASE a = "AddClusterAsRelease" -> "Add Cluster As Release..."
      [] a = "AddFileAsRecording" -> "Add File As Standalone Recording..."
      [] a = "AddFileAsRelease" -> "Add File As Release..."

objtype(a) == IF a = "AddClusterAsRelease" THEN "Cluster" ELSE "File"

submit_path(a) == IF a = "AddFileAsRecording" THEN "/recording/create" ELSE "/release/add"

\* HTML_ATTR_ESCAPE applied to every character of s. Of the strings of the
\* model only the ones listed hold "&" or a double quote.
esc(s) ==
    CASE s = "R&B" -> "R&amp;B"
      [] s = "Say \"Hi\"" -> "Say &quot;Hi&quot;"
      [] OTHER -> s

-----------------------------------------------------------------------------
(* self.form_values: a Python dict, kept as the sequence of its <<key, value>> *)
(* items in insertion order                                                 *)

Keys(fv) == {fv[j][1] : j \in 1..Len(fv)}

\* mutant: the first value written for a key is kept
add_form_value_keep_first(fv, key, value) ==
    IF key \in Keys(fv) THEN fv ELSE Append(fv, <<key, value>>)

\* self.form_values[key] = value
add_form_value(fv, key, value) ==
    IF key \in Keys(fv)
    THEN [j \in 1..Len(fv) |-> IF fv[j][1] = key THEN <<key, value>> ELSE fv[j]]
    ELSE Append(fv, <<key, value>>)

\* self.form_values.clear()
clear(fv) == <<>>

\* check_object, for a selection that has a first item
check_object(os, type) ==
    IF os[1].type # type \/ Len(os) # 1 THEN False ELSE Some(os[1])

\* the document written by generate_html_file: head, one input per item, tail
generate_html_file(a, fv) ==
    [title  |-> NAME(a),
     action |-> submit_path(a),
     inputs |-> [j \in 1..Len(fv) |-> <<esc(fv[j][1]), esc(fv[j][2])>>],
     submit |-> NAME(a)]

-----------------------------------------------------------------------------
(* AddClusterAsRelease *)

\* mutant: the shift is not raised for a disc number <= 0
extract_discnumber_no_raise(metadata, shift) ==
    LET discnumber == SplitFirst(MetadataGet(metadata, "discnumber", <<"1">>), "/")
    IN  IF IsInt(discnumber)
        THEN [m |-> int(discnumber) + shift, shift |-> shift]
        ELSE [m |-> 0, shift |-> shift]

\* mutant: the shift is set to -m instead of max(shift, -m)
extract_discnumber_no_max(metadata, shift) ==
    LET discnumber == SplitFirst(MetadataGet(metadata, "discnumber", <<"1">>), "/")
    IN  IF IsInt(discnumber)
        THEN LET m == int(discnumber)
                 s == IF m <= 0 THEN 0 - m ELSE shift
             IN  [m |-> m + s, shift |-> s]
        ELSE [m |-> 0, shift |-> shift]

\* mutant: the total after "/" is not split off
extract_discnumber_no_split(metadata, shift) ==
    LET discnumber == MetadataGet(metadata, "discnumber", <<"1">>)
    IN  IF IsInt(discnumber)
        THEN LET m == int(discnumber)
                 s == IF m <= 0 THEN Max(shift, 0 - m) ELSE shift
             IN  [m |-> m + s, shift |-> s]
        ELSE [m |-> 0, shift |-> shift]

\* mutant: the except branch resets the shift
extract_discnumber_except_resets(metadata, shift) ==
    LET discnumber == SplitFirst(MetadataGet(metadata, "discnumber", <<"1">>), "/")
    IN  IF IsInt(discnumber)
        THEN LET m == int(discnumber)
                 s == IF m <= 0 THEN Max(shift, 0 - m) ELSE shift
             IN  [m |-> m + s, shift |-> s]
        ELSE [m |-> 0, shift |-> -1]

\* extract_discnumber: the value returned and self.discnumber_shift after the call
extract_discnumber(metadata, shift) ==
    LET discnumber == SplitFirst(MetadataGet(metadata, "discnumber", <<"1">>), "/")
    IN  IF IsInt(discnumber)
        THEN LET m == int(discnumber)
                 s == IF m <= 0 THEN Max(shift, 0 - m) ELSE shift
             IN  [m |-> m + s, shift |-> s]
        ELSE [m |-> 0, shift |-> shift]   \* except ValueError: log.info, m = 0

\* the loop variable i after the try/except around int(tracknumber) - 1
TrackIndex(file, pos) ==
    IF IsInt(file.metadata.tracknumber) THEN int(file.metadata.tracknumber) - 1 ELSE pos

\* "mediums.%d.track.%d.%s" % (m, i, n)
TrackKey(m, i, n) ==
    "mediums." \o ToString(m) \o ".track." \o ToString(i) \o "." \o n

\* mutant: the track artist is written for every file
tnv_all_unconditional(fv, cluster, file, m, i) ==
    LET a == add_form_value(fv, TrackKey(m, i, "name"), file.metadata.title)
        b == add_form_value(a, TrackKey(m, i, "artist_credit.names.0.name"),
                            file.metadata.artist)
    IN  add_form_value(b, TrackKey(m, i, "length"), ToString(file.metadata.length))

\* the three tnv calls of one iteration of set_form_values
tnv_all(fv, cluster, file, m, i) ==
    LET a == add_form_value(fv, TrackKey(m, i, "name"), file.metadata.title)
        b == IF file.metadata.artist # cluster.metadata.albumartist
             THEN add_form_value(a, TrackKey(m, i, "artist_credit.names.0.name"),
                                 file.metadata.artist)
             ELSE a
    IN  add_form_value(b, TrackKey(m, i, "length"), ToString(file.metadata.length))

\* the two release-level nv calls of AddClusterAsRelease.set_form_values
cluster_release_values(fv, cluster) ==
    add_form_value(
        add_form_value(fv, "artist_credit.names.0.artist.name", cluster.metadata.albumartist),
        "name", cluster.metadata.album)

\* AddFileAsRecording.set_form_values
recording_form_values(fv, track) ==
    LET a == add_form_value(fv, "edit-recording.name", track.metadata.title)
        b == add_form_value(a, "edit-recording.artist_credit.names.0.artist.name",
                            track.metadata.artist)
    IN  add_form_value(b, "edit-recording.length", track.metadata.fmtlength)

\* AddFileAsRelease.set_form_values
release_form_values(fv, track) ==
    LET a == add_form_value(fv, "artist_credit.names.0.artist.name",
                 IF track.metadata.albumartist # "" THEN track.metadata.albumartist
                 ELSE track.metadata.artist)
        b == add_form_value(a, "name",
                 IF track.metadata.album # "" THEN track.metadata.album
                 ELSE track.metadata.title)
        c == add_form_value(b, "mediums.0.track.0.name", track.metadata.title)
        d == add_form_value(c, "mediums.0.track.0.artist_credit.names.0.name",
                            track.metadata.artist)
    IN  add_form_value(d, "mediums.0.track.0.length", ToString(track.metadata.length))

-----------------------------------------------------------------------------
(* The inputs: tags, files, clusters and selections *)

\* a Metadata object: the tags given, and a discnumber tag when one is set
Metadata(tags, discnumber) ==
    IF discnumber = None THEN tags ELSE tags @@ ("discnumber" :> discnumber[1])

\* discnumber tags of the files of a cluster: not set, or the text of the tag
ClusterDiscTags ==
    {None, Some(<<"2", "/", "2">>), Some(<<"-", "1", "/", "4">>),
     Some(<<"b", "o", "o", "p">>)}

\* discnumber tags of the doctest of extract_discnumber, and a few more
DoctestDiscTags ==
    ClusterDiscTags \cup
    {Some(<<"1">>), Some(<<"-", "1">>), Some(<<"1", "/", "1">>),
     Some(<<"-", "2", "/", "2">>), Some(<<"1", "/", "4">>), Some(<<"0">>),
     Some(<<" ", "3">>), Some(<<"/", "2">>)}

\* tracknumber tags: a number, or no tag (metadata["tracknumber"] is then "")
TrackTags == {<<"1">>, <<>>}

TitlesAndArtists == {<<"T1", "A">>, <<"T2", "R&B">>}

File(tracknumber, discnumber, title, artist, albumartist, album) ==
    [type |-> "File",
     metadata |-> Metadata([tracknumber |-> tracknumber, title |-> title,
                            artist |-> artist, albumartist |-> albumartist,
                            album |-> album, length |-> 1000, fmtlength |-> "0:01"],
                           discnumber)]

ClusterFiles ==
    {File(t, d, ta[1], ta[2], "", "") :
        t \in TrackTags, d \in ClusterDiscTags, ta \in TitlesAndArtists}

RECURSIVE SeqsUpTo(_, _)
SeqsUpTo(S, n) ==
    IF n = 0 THEN {<<>>}
    ELSE LET shorter == SeqsUpTo(S, n - 1)
         IN  shorter \cup {Append(q, x) : q \in shorter, x \in S}

Clusters ==
    {[type |-> "Cluster",
      metadata |-> [albumartist |-> "A", album |-> "Album"],
      files |-> fs] : fs \in SeqsUpTo(ClusterFiles, MaxFiles)}

\* single files offered to the two file actions
Files ==
    {File(<<"1">>, None, "T1", "A", "A", "Album"),
     File(<<>>, None, "Say \"Hi\"", "R&B", "", "")}

SampleObjects ==
    {File(<<"1">>, None, "T1", "A", "A", "Album"),
     [type |-> "Cluster", metadata |-> [albumartist |-> "A", album |-> "Album"],
      files |-> <<>>]}

\* what the user can have selected when a menu action is triggered
Selections ==
    {<<o>> : o \in Clusters \cup Files} \cup
    {<<o, p>> : o \in SampleObjects, p \in SampleObjects}

-----------------------------------------------------------------------------
(* The state after the module is imported: the three actions registered *)

Init ==
    /\ pc = "idle"
    /\ self = "none"
    /\ objs = <<>>
    /\ objdata = None
    /\ form_values = [a \in Actions |-> <<>>]
    /\ discnumber_shift = -1
    /\ k = 0
    /\ html_file = None
    /\ exc = FALSE
    /\ calls = <<>>
    /\ last_form = None

\* one call of extract_discnumber, as an entry of the trace
Call(metadata, shift) ==
    LET r == extract_discnumber(metadata, shift)
    IN  [metadata |-> metadata, before |-> shift, m |-> r.m, after |-> r.shift]

-----------------------------------------------------------------------------
(* The user interface: the selection, and triggering a menu action *)

select ==
    /\ pc = "idle"
    /\ objs = <<>>
    /\ \E os \in Selections : objs' = os
    /\ last_form' = None
    /\ UNCHANGED <<pc, self, objdata, form_values, discnumber_shift, k,
                   html_file, exc, calls>>

deselect ==
    /\ pc = "idle"
    /\ objs # <<>>
    /\ objs' = <<>>
    /\ last_form' = None
    /\ UNCHANGED <<pc, self, objdata, form_values, discnumber_shift, k,
                   html_file, exc, calls>>

\* callback(objs) is entered
callback(a) ==
    /\ pc = "idle"
    /\ pc' = "check_object"
    /\ self' = a
    /\ UNCHANGED <<objs, objdata, form_values, discnumber_shift, k, html_file,
                   exc, calls, last_form>>

\* what leaves callback: its locals are gone
Return ==
    /\ pc' = "idle"
    /\ self' = "none"
    /\ objdata' = None
    /\ k' = 0
    /\ html_file' = None
    /\ exc' = FALSE
    /\ calls' = <<>>

\* objdata = self.check_object(objs, self.objtype), before the try block:
\* objs[0] of an empty selection raises IndexError out of callback
callback_check_object ==
    /\ pc = "check_object"
    /\ IF objs = <<>>
       THEN /\ Return
            /\ UNCHANGED <<objs, form_values, discnumber_shift, last_form>>
       ELSE /\ objdata' = check_object(objs, objtype(self))
            /\ pc' = "try"
            /\ UNCHANGED <<self, objs, form_values, discnumber_shift, k, html_file,
                           exc, calls, last_form>>

\* bool(objdata): False is falsy, a File is truthy, a Cluster is as truthy as
\* picard's Cluster makes it (an empty one may be falsy)
Truth(od) ==
    IF od = False THEN {FALSE}
    ELSE IF od[1].type = "Cluster" /\ od[1].files = <<>> THEN {TRUE, FALSE}
    ELSE {TRUE}

\* if objdata:
callback_if_objdata ==
    /\ pc = "try"
    /\ \E t \in Truth(objdata) : pc' = IF t THEN "set_form_values" ELSE "finally"
    /\ UNCHANGED <<self, objs, objdata, form_values, discnumber_shift, k,
                   html_file, exc, calls, last_form>>

\* where callback goes after this iteration of the loop over cluster.files
AfterFile(n, cluster) ==
    IF n < Len(cluster.files) THEN "files" ELSE "generate_html_file"

\* AddClusterAsRelease.set_form_values up to the loop
cluster_set_form_values ==
    /\ pc = "set_form_values"
    /\ self = "AddClusterAsRelease"
    /\ form_values' = [form_values EXCEPT
                          ![self] = cluster_release_values(@, objdata[1])]
    /\ k' = 0
    /\ pc' = AfterFile(0, objdata[1])
    /\ UNCHANGED <<self, objs, objdata, discnumber_shift, html_file, exc, calls,
                   last_form>>

\* one iteration of the loop of AddClusterAsRelease.set_form_values
cluster_set_form_values_file ==
    /\ pc = "files"
    /\ LET cluster == objdata[1]
           file == cluster.files[k + 1]
           i == TrackIndex(file, k)
           c == Call(file.metadata, discnumber_shift)
       IN  /\ discnumber_shift' = c.after
           /\ calls' = Append(calls, c)
           /\ form_values' = [form_values EXCEPT
                                 ![self] = tnv_all(@, cluster, file, c.m, i)]
           /\ k' = k + 1
           /\ pc' = AfterFile(k + 1, cluster)
    /\ UNCHANGED <<self, objs, objdata, html_file, exc, last_form>>

\* AddFileAsRecording.set_form_values and AddFileAsRelease.set_form_values
file_set_form_values ==
    /\ pc = "set_form_values"
    /\ self # "AddClusterAsRelease"
    /\ form_values' = [form_values EXCEPT
                          ![self] = IF self = "AddFileAsRecording"
                                    THEN recording_form_values(@, objdata[1])
                                    ELSE release_form_values(@, objdata[1])]
    /\ pc' = "generate_html_file"
    /\ UNCHANGED <<self, objs, objdata, discnumber_shift, k, html_file, exc,
                   calls, last_form>>

\* html_file = self.generate_html_file(self.form_values)
callback_generate_html_file ==
    /\ pc = "generate_html_file"
    /\ html_file' = Some(generate_html_file(self, form_values[self]))
    /\ pc' = "open_html_file"
    /\ UNCHANGED <<self, objs, objdata, form_values, discnumber_shift, k, exc,
                   calls, last_form>>

\* self.open_html_file(html_file)
callback_open_html_file ==
    /\ pc = "open_html_file"
    /\ pc' = "finally"
    /\ UNCHANGED <<self, objs, objdata, form_values, discnumber_shift, k,
                   html_file, exc, calls, last_form>>

\* a call made inside the try block raises: reading the metadata, mkstemp,
\* writing the file, starting the browser
callback_raise ==
    /\ pc \in {"set_form_values", "files", "generate_html_file", "open_html_file"}
    /\ exc' = TRUE
    /\ pc' = "finally"
    /\ UNCHANGED <<self, objs, objdata, form_values, discnumber_shift, k,
                   html_file, calls, last_form>>

\* mutant: the clear is skipped while an exception propagates
clear_on_success(a, raised, fvs) ==
    IF raised THEN fvs ELSE [fvs EXCEPT ![a] = clear(@)]

\* finally: self.form_values.clear()
callback_clear(a, raised, fvs) == [fvs EXCEPT ![a] = clear(@)]

callback_finally ==
    /\ pc = "finally"
    /\ form_values' = callback_clear(self, exc, form_values)
    /\ last_form' = IF html_file = None THEN None
                    ELSE Some([by |-> self, form |-> form_values[self]])
    /\ Return
    /\ UNCHANGED <<objs, discnumber_shift>>

Next ==
    \/ select
    \/ deselect
    \/ \E a \in Actions : callback(a)
    \/ callback_check_object
    \/ callback_if_objdata
    \/ cluster_set_form_values
    \/ cluster_set_form_values_file
    \/ file_set_form_values
    \/ callback_generate_html_file
    \/ callback_open_html_file
    \/ callback_raise
    \/ callback_finally

Spec == Init /\ [][Next]_vars

-----------------------------------------------------------------------------
(* The doctest of extract_discnumber: calls made directly on one fresh      *)
(* AddClusterAsRelease()                                                    *)

doctest_extract_discnumber(discnumber) ==
    /\ Len(calls) < MaxCalls
    /\ LET c == Call(Metadata(<<>>, discnumber), discnumber_shift)
       IN  /\ discnumber_shift' = c.after
           /\ calls' = Append(calls, c)
    /\ UNCHANGED <<pc, self, objs, objdata, form_values, k, html_file, exc,
                   last_form>>

NextDoctest == \E d \in DoctestDiscTags : doctest_extract_discnumber(d)

SpecDoctest == Init /\ [][NextDoctest]_vars

-----------------------------------------------------------------------------
(* Vocabulary of the properties *)

\* the part of the call's discnumber tag before the first "/"
DiscText(c) == SplitFirst(MetadataGet(c.metadata, "discnumber", <<"1">>), "/")

Parses(c) == IsInt(DiscText(c))

DiscValue(c) == int(DiscText(c))

Indices == {calls[j].m : j \in 1..Len(calls)}

\* the registered AddClusterAsRelease has left set_form_values
ClusterDone == self = "AddClusterAsRelease" /\ pc = "generate_html_file"

ArtistKey(j) ==
    TrackKey(calls[j].m, TrackIndex(objdata[1].files[j], j - 1),
             "artist_credit.names.0.name")

SameArtist(j) ==
    objdata[1].files[j].metadata.artist = objdata[1].metadata.albumartist

SamePath(j, l) ==
    /\ calls[j].m = calls[l].m
    /\ TrackIndex(objdata[1].files[j], j - 1) = TrackIndex(objdata[1].files[l], l - 1)

\* the names file j writes under its track path, and the value for each
Written(j) ==
    LET md == objdata[1].files[j].metadata
    IN  {<<"name", md.title>>, <<"length", ToString(md.length)>>} \cup
        (IF SameArtist(j) THEN {} ELSE {<<"artist_credit.names.0.name", md.artist>>})

WrittenItems(j) ==
    {<<TrackKey(calls[j].m, TrackIndex(objdata[1].files[j], j - 1), w[1]), w[2]>> :
        w \in Written(j)}

Writers(key) == {j \in 1..Len(calls) : \E w \in WrittenItems(j) : w[1] = key}

SetMax(S) == CHOOSE x \in S : \A y \in S : y <= x
SetMin(S) == CHOOSE x \in S : \A y \in S : x <= y

-----------------------------------------------------------------------------
(* C1: on an instance whose shift starts at -1, every medium index that a  *)
(* sequence of extract_discnumber calls returns is >= 0, whatever the tags *)
(* are and in whatever order they come.                                    *)
C1_IndexNonNegative == \A j \in 1..Len(calls) : calls[j].m >= 0

\* a positive disc number, then a negative one, with an unparseable tag too
C1_Witness ==
    /\ \E j, l \in 1..Len(calls) :
          /\ j < l
          /\ Parses(calls[j]) /\ DiscValue(calls[j]) > 0
          /\ Parses(calls[l]) /\ DiscValue(calls[l]) < 0
    /\ \E j \in 1..Len(calls) : ~Parses(calls[j])

(* C2: at the start of every callback of the registered AddClusterAsRelease *)
(* the shift is -1.                                                         *)
C2_ShiftFreshAtCallback ==
    (pc = "check_object" /\ self = "AddClusterAsRelease") => discnumber_shift = -1

(* C3: the action invoked twice in succession on the same cluster renders  *)
(* the same form_values both times.                                        *)
C3_SameFormTwice ==
    (/\ pc = "open_html_file"
     /\ self = "AddClusterAsRelease"
     /\ last_form # None
     /\ last_form[1].by = self)
    => form_values[self] = last_form[1].form

(* C4: a call whose tag does not parse before the first "/" returns 0 and  *)
(* leaves the shift as it was, whatever the shift was.                     *)
C4_UnparseableIsZero ==
    \A j \in 1..Len(calls) :
        ~Parses(calls[j]) => calls[j].m = 0 /\ calls[j].after = calls[j].before

\* an unparseable tag met after the shift was raised
C4_Witness ==
    \E j \in 1..Len(calls) : ~Parses(calls[j]) /\ calls[j].before = 2

(* C5: a call whose tag parses to m on shift s leaves the shift            *)
(* max(s, -m) when m <= 0 and s when m > 0, and returns m plus the new     *)
(* shift; the shift never decreases from call to call; on a fresh instance *)
(* "1" gives 0 and "2/2" gives 1, and "-2/2", "-1/4", "1/4" give 0, 1, 3.  *)
C5_ShiftAndIndex ==
    /\ \A j \in 1..Len(calls) :
          Parses(calls[j]) =>
             LET m == DiscValue(calls[j])
                 s == calls[j].before
             IN  /\ calls[j].after = (IF m <= 0 THEN Max(s, 0 - m) ELSE s)
                 /\ calls[j].m = m + calls[j].after
    /\ calls # <<>> => calls[1].before = -1
    /\ \A j \in 1..Len(calls) - 1 :
          calls[j + 1].before = calls[j].after /\ calls[j + 1].after >= calls[j].after
    /\ (calls # <<>> /\ DiscText(calls[1]) = <<"1">>) => calls[1].m = 0
    /\ (calls # <<>> /\ DiscText(calls[1]) = <<"2">>) => calls[1].m = 1
    /\ (/\ Len(calls) >= 3
        /\ DiscText(calls[1]) = <<"-", "2">>
        /\ DiscText(calls[2]) = <<"-", "1">>
        /\ DiscText(calls[3]) = <<"1">>)
       => <<calls[1].m, calls[2].m, calls[3].m>> = <<0, 1, 3>>

\* the sequence of the doctest: "-2/2", "-1/4", "1/4"
C5_Witness ==
    /\ Len(calls) >= 3
    /\ calls[1].metadata = Metadata(<<>>, Some(<<"-", "2", "/", "2">>))
    /\ calls[2].metadata = Metadata(<<>>, Some(<<"-", "1", "/", "4">>))
    /\ calls[3].metadata = Metadata(<<>>, Some(<<"1", "/", "4">>))
    /\ calls[3].m = 3

(* C6: the medium indices emitted for the files of one cluster, from a     *)
(* fresh shift, contain 0 and every integer up to the largest one.         *)
C6_GapFree ==
    (ClusterDone /\ calls # <<>> /\ calls[1].before = -1)
    => (0 \in Indices /\ \A x \in 0..SetMax(Indices) : x \in Indices)

(* C6 as amended: from a fresh shift, when every file's disc number is     *)
(* positive (a tag that parses to a positive integer, or no tag) and the   *)
(* disc numbers present are exactly 1..n, the indices emitted are exactly  *)
(* 0..n-1.                                                                 *)
C6_GapFreeWhenDiscsAreOneToN ==
    (/\ ClusterDone /\ calls # <<>> /\ calls[1].before = -1
     /\ \A j \in 1..Len(calls) : Parses(calls[j]) /\ DiscValue(calls[j]) > 0
     /\ LET discs == {DiscValue(calls[j]) : j \in 1..Len(calls)}
        IN  discs = 1..SetMax(discs))
    => Indices = 0..(SetMax({DiscValue(calls[j]) : j \in 1..Len(calls)}) - 1)

\* a cluster with discs 1 and 2, processed from a fresh shift
C6_Witness ==
    /\ ClusterDone /\ calls # <<>> /\ calls[1].before = -1
    /\ \A j \in 1..Len(calls) : Parses(calls[j]) /\ DiscValue(calls[j]) > 0
    /\ {DiscValue(calls[j]) : j \in 1..Len(calls)} = {1, 2}

(* C7: in the mapping set_form_values leaves, the track artist key of      *)
(* every file whose artist equals the album artist is absent.              *)
C7_ArtistKeyAbsent ==
    ClusterDone =>
        \A j \in 1..Len(calls) :
            SameArtist(j) => ArtistKey(j) \notin Keys(form_values[self])

(* C7 as amended: the track artist key of a file whose artist equals the   *)
(* album artist is absent unless another file of the cluster maps to the   *)
(* same medium and track index and has a different artist; it is then      *)
(* present.                                                                *)
C7_ArtistKeyAbsentUnlessShared ==
    ClusterDone =>
        \A j \in 1..Len(calls) :
            SameArtist(j) =>
               (ArtistKey(j) \in Keys(form_values[self])
                  <=> \E l \in 1..Len(calls) : SamePath(j, l) /\ ~SameArtist(l))

\* two files, one with the album artist, whose artist key is absent
C7_Witness ==
    /\ ClusterDone
    /\ Len(calls) >= 2
    /\ \E j \in 1..Len(calls) :
          SameArtist(j) /\ ArtistKey(j) \notin Keys(form_values[self])
    /\ \E l \in 1..Len(calls) : ~SameArtist(l)

(* C8: the mapping built for a cluster starts with the two release-level   *)
(* keys, its keys are unique, the track keys stand in the order of the     *)
(* files that first wrote them, every written key is there, and a key      *)
(* written by several files holds the value of the last of them.           *)
C8_InOrderLastWriteWins ==
    ClusterDone =>
        LET fv == form_values[self]
        IN  /\ Len(fv) >= 2
            /\ fv[1] = <<"artist_credit.names.0.artist.name",
                         objdata[1].metadata.albumartist>>
            /\ fv[2] = <<"name", objdata[1].metadata.album>>
            /\ \A p, q \in 1..Len(fv) : p # q => fv[p][1] # fv[q][1]
            /\ \A j \in 1..Len(calls) : \A w \in WrittenItems(j) : w[1] \in Keys(fv)
            /\ \A p \in 3..Len(fv) :
                  /\ Writers(fv[p][1]) # {}
                  /\ <<fv[p][1], fv[p][2]>> \in WrittenItems(SetMax(Writers(fv[p][1])))
            /\ \A p, q \in 3..Len(fv) :
                  p < q => SetMin(Writers(fv[p][1])) <= SetMin(Writers(fv[q][1]))

\* two files on the same medium and track index, with different titles
C8_Witness ==
    /\ ClusterDone
    /\ \E j, l \in 1..Len(calls) :
          /\ j < l
          /\ SamePath(j, l)
          /\ objdata[1].files[j].metadata.title # objdata[1].files[l].metadata.title

(* C9: when an earlier call has a smaller disc number than a later call on *)
(* the same instance, the index the earlier call returned is not larger    *)
(* than the index the later call returns.                                  *)
C9_SmallerDiscNotLargerIndex ==
    \A j, l \in 1..Len(calls) :
        (/\ j < l
         /\ Parses(calls[j]) /\ Parses(calls[l])
         /\ DiscValue(calls[j]) < DiscValue(calls[l]))
        => calls[j].m <= calls[l].m

\* a smaller disc number, then a larger one after the shift was raised
C9_Witness ==
    \E j, l \in 1..Len(calls) :
        /\ j < l
        /\ Parses(calls[j]) /\ Parses(calls[l])
        /\ DiscValue(calls[j]) < DiscValue(calls[l])
        /\ calls[j].after < calls[l].before

(* C10: form_values of every action is empty when no callback runs and     *)
(* when one is entered, however the previous callbacks ended; while a      *)
(* callback runs only its own action's form_values holds anything.         *)
C10_FormValuesEmptyBetweenCallbacks ==
    /\ pc \in {"idle", "check_object"} => \A a \in Actions : form_values[a] = <<>>
    /\ \A a \in Actions : a # self => form_values[a] = <<>>

\* a callback that raised is about to leave with form_values filled
C10_Witness ==
    pc = "finally" /\ exc /\ form_values[self] # <<>>

====
